---- MODULE Spec2Model ----
(***************************************************************************)
(* Model of the YOLO11nSegmentation plugin (app/models/yolo11n_seg.py) on  *)
(* top of BaseModel (app/models/__init__.py): the load / predict / unload  *)
(* lifecycle of one plugin instance, the parameter look-up of predict, the *)
(* per-instance shape assembly and mask_to_polygon.                        *)
(*                                                                         *)
(* Numbers.  Thresholds are in thousandths (0.25 -> 250).  A mask value v  *)
(* in [0,1] is the integer v * Unit, Unit = 255 * 2 * Sub, and every pixel *)
(* the wrapped model yields is an even integer, so that the mean of two    *)
(* pixels (bilinear resampling 2 -> 1) is again an integer.                *)
(*                                                                         *)
(* External code.  The wrapped ultralytics model and the OpenCV contour    *)
(* routines are not part of the repository.  What the wrapped model        *)
(* returns for a call is an input of Predict.  cv2.findContours returns no *)
(* contour exactly when the 8-bit image has no non-zero pixel; the contours*)
(* it returns otherwise, their areas and what cv2.approxPolyDP makes of    *)
(* them are carried by the instance (fields contours[k].pts, .area,        *)
(* .approx) as chosen by the environment.                                  *)
(***************************************************************************)
EXTENDS Integers, Sequences, FiniteSets, TLC

VARIABLES
    model,      \* self.model: "absent" (no attribute) or how far load() got
    params,     \* self.params, the configured parameter mapping
    lifecycle,  \* outcome of the latest load()/unload(): Unloaded, Loaded, Failed
    last        \* the latest call on the plugin: its inputs and what it returned or raised

vars == <<model, params, lifecycle, last>>

----------------------------------------------------------------------------
(* Bounds *)

MaxInst == 2    \* instances in a result of several instances
Sub == 2        \* mask values distinguished per 8-bit level: 2 * Sub

----------------------------------------------------------------------------
(* Values *)

Unit == 255 * 2 * Sub

Absent == "absent"

DefaultConf == 250
DefaultIou == 700
DefaultEps == 1

\* dict.get(key, default)
Get(d, key, default) == IF key \in DOMAIN d THEN d[key] ELSE default

\* the four values predict reads, yolo11n_seg.py:59-76
ConfThreshold(p, sp) == Get(p, "conf_threshold", Get(sp, "conf_threshold", DefaultConf))

IouThreshold(p, sp) == Get(p, "iou_threshold", Get(sp, "iou_threshold", DefaultIou))

ShowBoxes(p, sp) == Get(sp, "show_boxes", FALSE)

EpsilonFactor(p, sp) == Get(p, "epsilon_factor", Get(sp, "epsilon_factor", DefaultEps))

----------------------------------------------------------------------------
(* Masks and cv2 *)

NoError == "none"

\* the cast rounding to the nearest integer instead of truncating
ToUint8Rounded(v) == ((v * 255 + Unit \div 2) \div Unit) % 256

\* (mask * 255).astype(np.uint8) on one pixel, v in [0, Unit]: the cast truncates
ToUint8(v) == ((v * 255) \div Unit) % 256

\* mask_uint8, yolo11n_seg.py:17
MaskUint8(px) == [r \in DOMAIN px |-> [c \in DOMAIN px[r] |-> ToUint8(px[r][c])]]

\* cv2.findContours treats every non-zero pixel as foreground
HasForeground(u8) == \E r \in DOMAIN u8 : \E c \in DOMAIN u8[r] : u8[r][c] # 0

\* cv2.findContours(mask_uint8, RETR_EXTERNAL, CHAIN_APPROX_SIMPLE): no contour
\* for an image without foreground, else what the environment chose
FindContours(u8, contours) == IF HasForeground(u8) THEN contours ELSE << >>

\* max(contours, key=cv2.contourArea): the first contour of greatest area
MaxByArea(cs) ==
    LET best == CHOOSE k \in DOMAIN cs :
                    /\ \A j \in DOMAIN cs : cs[j].area <= cs[k].area
                    /\ \A j \in DOMAIN cs : cs[j].area = cs[k].area => k <= j
    IN  cs[best]

\* mask_to_polygon on a mask binarised with >= 0: every pixel is foreground
mask_to_polygon_all(px, contours, epsilon_factor) ==
    LET cs == contours
    IN  IF cs = << >> THEN << >>
        ELSE LET contour == MaxByArea(cs)
             IN  IF epsilon_factor > 0 THEN contour.approx ELSE contour.pts

\* mask_to_polygon, yolo11n_seg.py:13-32
mask_to_polygon(px, contours, epsilon_factor) ==
    LET cs == FindContours(MaskUint8(px), contours)
    IN  IF cs = << >> THEN << >>
        ELSE LET contour == MaxByArea(cs)
             IN  IF epsilon_factor > 0 THEN contour.approx ELSE contour.pts

\* the sample half way between two pixels, and between two rows
MeanPixel(a, b) == (a + b) \div 2

MeanRow(r1, r2) == [c \in DOMAIN r1 |-> MeanPixel(r1[c], r2[c])]

\* bilinear resampling of a row of 1 or 2 pixels to n in 1..2 pixels
ResizeRow(s, n) ==
    IF Len(s) = n THEN s
    ELSE IF Len(s) = 1 THEN [i \in 1..n |-> s[1]]
    ELSE << MeanPixel(s[1], s[2]) >>

\* bilinear resampling of a column of 1 or 2 rows to n in 1..2 rows
ResizeRows(px, n) ==
    IF Len(px) = n THEN px
    ELSE IF Len(px) = 1 THEN [i \in 1..n |-> px[1]]
    ELSE << MeanRow(px[1], px[2]) >>

\* cv2.resize(mask.astype(np.float32), (orig_w, orig_h), INTER_LINEAR); it
\* raises cv2.error on a source or a target without pixels
Resize(mask, orig_h, orig_w) ==
    IF mask.h = 0 \/ mask.w = 0 \/ orig_h = 0 \/ orig_w = 0
    THEN [err |-> "cv2.error", px |-> << >>]
    ELSE LET rows == ResizeRows(mask.px, orig_h)
         IN  [err |-> NoError,
              px |-> [r \in DOMAIN rows |-> ResizeRow(rows[r], orig_w)]]

\* yolo11n_seg.py:89-95
Resampled(mask, orig_h, orig_w) ==
    IF mask.h # orig_h \/ mask.w # orig_w
    THEN Resize(mask, orig_h, orig_w)
    ELSE [err |-> NoError, px |-> mask.px]

----------------------------------------------------------------------------
(* Shape assembly, yolo11n_seg.py:78-146 *)

\* conf of a box whose score is not a number; float(nan) does not raise
NaN == -1

\* the four corners written at yolo11n_seg.py:111-116 and 138-143
RectPoints(xyxy) ==
    << <<xyxy[1], xyxy[2]>>, <<xyxy[3], xyxy[2]>>,
       <<xyxy[3], xyxy[4]>>, <<xyxy[1], xyxy[4]>> >>

\* closing without the comparison of the first and the last point
ClosePointsAlways(points_list) ==
    IF points_list # << >> THEN Append(points_list, points_list[1]) ELSE points_list

\* yolo11n_seg.py:103-104
ClosePoints(points_list) ==
    IF points_list # << >> /\ points_list[1] # points_list[Len(points_list)]
    THEN Append(points_list, points_list[1])
    ELSE points_list

Shape(label, shape_type, points, score) ==
    [label |-> label, shape_type |-> shape_type, points |-> points, score |-> score]

\* what one iteration leaves: the shapes it appended, or the exception it raised
Emitted(shapes) == [err |-> NoError, shapes |-> shapes]

Raised(err) == [err |-> err, shapes |-> << >>]

\* the two appends in the opposite order
InstanceShapesPolygonFirst(show_boxes, bbox_shape, mask_shape) ==
    IF show_boxes THEN <<mask_shape, bbox_shape>> ELSE <<mask_shape>>

\* the appends of one mask instance, yolo11n_seg.py:106-127
InstanceShapes(show_boxes, bbox_shape, mask_shape) ==
    IF show_boxes THEN <<bbox_shape, mask_shape>> ELSE <<mask_shape>>

\* one iteration of the loop over mask_data, yolo11n_seg.py:84-127
MaskInstance(inst, names, orig_h, orig_w, show_boxes, epsilon_factor) ==
    IF inst.cls \notin DOMAIN names THEN Raised("KeyError")
    ELSE
    LET label == names[inst.cls]
        mask == Resampled(inst.mask, orig_h, orig_w)
    IN  IF mask.err # NoError THEN Raised(mask.err)
        ELSE
        LET points == mask_to_polygon(mask.px, inst.contours, epsilon_factor)
        IN  IF Len(points) < 3 THEN Emitted(<< >>)
            ELSE
            LET points_list == ClosePoints(points)
                bbox_shape == Shape(label, "rectangle", RectPoints(inst.xyxy), inst.conf)
                mask_shape == Shape(label, "polygon", points_list, inst.conf)
            IN  Emitted(InstanceShapes(show_boxes, bbox_shape, mask_shape))

\* one iteration of the loop over boxes, yolo11n_seg.py:129-146
BoxInstance(box, names) ==
    IF box.cls \notin DOMAIN names THEN Raised("KeyError")
    ELSE Emitted(<< Shape(names[box.cls], "rectangle", RectPoints(box.xyxy), box.conf) >>)

\* the loop going on to the next instance when one raises
RECURSIVE InstanceLoopSkipping(_, _, _, _, _, _, _)
InstanceLoopSkipping(result, i, orig_h, orig_w, show_boxes, epsilon_factor, shapes) ==
    IF i > Len(result.inst) THEN Emitted(shapes)
    ELSE LET r == IF result.masks
                  THEN MaskInstance(result.inst[i], result.names, orig_h, orig_w,
                                    show_boxes, epsilon_factor)
                  ELSE BoxInstance(result.inst[i], result.names)
         IN  InstanceLoopSkipping(result, i + 1, orig_h, orig_w, show_boxes,
                                  epsilon_factor, shapes \o r.shapes)

\* the body of "for result in results" on the instances from i on
RECURSIVE InstanceLoop(_, _, _, _, _, _, _)
InstanceLoop(result, i, orig_h, orig_w, show_boxes, epsilon_factor, shapes) ==
    IF i > Len(result.inst) THEN Emitted(shapes)
    ELSE LET r == IF result.masks
                  THEN MaskInstance(result.inst[i], result.names, orig_h, orig_w,
                                    show_boxes, epsilon_factor)
                  ELSE BoxInstance(result.inst[i], result.names)
         IN  IF r.err # NoError THEN Raised(r.err)
             ELSE InstanceLoop(result, i + 1, orig_h, orig_w, show_boxes,
                               epsilon_factor, shapes \o r.shapes)

\* for result in results, yolo11n_seg.py:78-146
RECURSIVE ResultLoop(_, _, _, _, _, _, _)
ResultLoop(results, k, orig_h, orig_w, show_boxes, epsilon_factor, shapes) ==
    IF k > Len(results) THEN Emitted(shapes)
    ELSE LET result == results[k]
             r == IF result.masks \/ result.boxes
                  THEN InstanceLoop(result, 1, orig_h, orig_w, show_boxes,
                                    epsilon_factor, shapes)
                  ELSE Emitted(shapes)
         IN  IF r.err # NoError THEN Raised(r.err)
             ELSE ResultLoop(results, k + 1, orig_h, orig_w, show_boxes,
                             epsilon_factor, r.shapes)

----------------------------------------------------------------------------
(* Inputs: what the host passes and what the wrapped model returns *)

SeqsUpTo(S, n) == UNION {[1..k -> S] : k \in 0..n}

\* result.names
Names == [c \in {0, 1} |-> IF c = 0 THEN "person" ELSE "car"]

\* 0, a positive value below 1/255, 1/255 and 1
PixVals == {0, 2, 2 * Sub, Unit}

Mask(h, w, px) == [h |-> h, w |-> w, px |-> px]

Masks ==
    {Mask(1, 1, << <<a>> >>) : a \in PixVals}
    \cup {Mask(1, 2, << <<a, b>> >>) : a, b \in PixVals}
    \cup {Mask(2, 1, << <<a>>, <<b>> >>) : a, b \in {0, 2 * Sub}}

FullMask == Mask(1, 1, << <<Unit>> >>)

ZeroMask == Mask(1, 1, << <<0>> >>)

\* a mask without pixels, which cv2.resize refuses
EmptyMask == Mask(1, 0, << << >> >>)

ImageDims == {<<1, 1>>, <<1, 2>>, <<2, 1>>}

Tri == << <<0, 0>>, <<4, 0>>, <<4, 3>> >>

Quad == << <<0, 0>>, <<4, 0>>, <<4, 3>>, <<0, 3>> >>

ClosedTri == << <<0, 0>>, <<4, 0>>, <<4, 3>>, <<0, 0>> >>

Contour(pts, area, approx) == [pts |-> pts, area |-> area, approx |-> approx]

\* what cv2 finds in a mask with foreground: the contours, their areas and
\* their simplifications
QuadContours == << Contour(Quad, 12, Tri) >>

ContourChoices ==
    { QuadContours,
      << Contour(Tri, 6, << <<0, 0>>, <<4, 3>> >>) >>,
      << Contour(ClosedTri, 6, ClosedTri) >>,
      << Contour(<< <<2, 2>> >>, 0, << <<2, 2>> >>) >>,
      << Contour(<< <<2, 2>> >>, 0, << <<2, 2>> >>),
         Contour(Quad, 12, Quad),
         Contour(Tri, 12, Tri) >> }

Inst(cls, conf, xyxy, mask, contours) ==
    [cls |-> cls, conf |-> conf, xyxy |-> xyxy, mask |-> mask, contours |-> contours]

Box(cls, conf, xyxy) == [cls |-> cls, conf |-> conf, xyxy |-> xyxy]

BoxA == <<1, 2, 5, 6>>

BoxB == <<0, 0, 3, 4>>

GoodInst == Inst(0, 900, BoxA, FullMask, QuadContours)

\* instances differing from GoodInst in one respect
MaskInsts ==
    {Inst(0, 900, BoxA, m, QuadContours) : m \in Masks \cup {EmptyMask}}
    \cup {Inst(0, 900, BoxA, FullMask, c) : c \in ContourChoices}
    \cup {Inst(7, 900, BoxA, FullMask, QuadContours),
          Inst(1, NaN, BoxB, FullMask, QuadContours)}

\* the instances of results of several instances
SmallInsts ==
    { GoodInst,
      Inst(1, 800, BoxB, FullMask, << Contour(ClosedTri, 6, ClosedTri) >>),
      Inst(0, 700, BoxA, ZeroMask, QuadContours),
      Inst(0, 600, BoxA, EmptyMask, QuadContours) }

BoxInsts == {Box(0, 900, BoxA), Box(1, 800, BoxB), Box(7, 700, BoxA)}

MaskResult(insts) == [masks |-> TRUE, boxes |-> TRUE, names |-> Names, inst |-> insts]

BoxResult(boxes) == [masks |-> FALSE, boxes |-> TRUE, names |-> Names, inst |-> boxes]

\* a result with neither masks nor boxes
BareResult == [masks |-> FALSE, boxes |-> FALSE, names |-> Names, inst |-> << >>]

NoParams == [k \in {} |-> 0]

\* params of a predict call
CallParams ==
    { NoParams,
      [conf_threshold |-> 500, iou_threshold |-> 450],
      [show_boxes |-> TRUE, epsilon_factor |-> 0],
      [show_boxes |-> FALSE, epsilon_factor |-> 5, max_det |-> 10] }

\* config["params"] of the plugin
ConfigParams ==
    { NoParams,
      [show_boxes |-> TRUE, model_path |-> "yolo11n-seg.pt"],
      [conf_threshold |-> 100, iou_threshold |-> 600, epsilon_factor |-> 0,
       show_boxes |-> FALSE],
      [show_boxes |-> TRUE, epsilon_factor |-> 0, device |-> "cuda"] }

Call(image, p, results) == [image |-> image, p |-> p, results |-> results]

PredictInputs ==
    {Call(d, NoParams, << MaskResult(<<i>>) >>) : d \in ImageDims, i \in MaskInsts}
    \cup {Call(<<1, 1>>, NoParams, << MaskResult(s) >>) : s \in SeqsUpTo(SmallInsts, MaxInst)}
    \cup {Call(<<1, 1>>, NoParams, << BoxResult(s) >>) : s \in SeqsUpTo(BoxInsts, MaxInst)}
    \cup {Call(<<1, 1>>, q, r) :
            q \in CallParams,
            r \in { << >>, << BareResult >>, << MaskResult(<<GoodInst>>) >>,
                    << BoxResult(<< Box(1, 800, BoxB) >>) >>,
                    << MaskResult(<<GoodInst>>), BoxResult(<< Box(1, 800, BoxB) >>) >> }}

----------------------------------------------------------------------------
(* The plugin *)

\* pre: self.model and the lifecycle state when the call was made
NoCall == [op |-> "none", err |-> NoError, ran |-> FALSE, shapes |-> << >>,
           pre |-> [model |-> Absent, lifecycle |-> "Unloaded"],
           call |-> Call(<<1, 1>>, NoParams, << >>),
           used |-> [conf_threshold |-> 0, iou_threshold |-> 0,
                     show_boxes |-> FALSE, epsilon_factor |-> 0]]

\* BaseModel.__init__, __init__.py:10-19: no model attribute yet
Init ==
    /\ model = Absent
    /\ params \in ConfigParams
    /\ lifecycle = "Unloaded"
    /\ last = NoCall

\* self.model after load() that fails at the step failAt ("none": no failure),
\* yolo11n_seg.py:41-45
LoadedModel(m, failAt) ==
    CASE failAt = "YOLO" -> m
      [] failAt = "to" -> "constructed"
      [] failAt = "warmup" -> "on_device"
      [] OTHER -> "warmed"

\* load(), yolo11n_seg.py:34-45
Load ==
    \E failAt \in {"none", "YOLO", "to", "warmup"} :
        /\ model' = LoadedModel(model, failAt)
        /\ lifecycle' = IF failAt = "none" THEN "Loaded" ELSE "Failed"
        /\ last' = [NoCall EXCEPT !.op = "load",
                                  !.err = IF failAt = "none" THEN NoError ELSE "Exception",
                                  !.pre = [model |-> model, lifecycle |-> lifecycle]]
        /\ UNCHANGED params

\* unload() as "del self.model" without the hasattr test
UnloadUnguarded(m) ==
    [model |-> Absent, err |-> IF m = Absent THEN "AttributeError" ELSE NoError]

\* unload(), yolo11n_seg.py:150-153: the model it leaves and what it raises
UnloadResult(m) == [model |-> Absent, err |-> NoError]

Unload ==
    LET r == UnloadResult(model)
    IN  /\ model' = r.model
        /\ lifecycle' = "Unloaded"
        /\ last' = [NoCall EXCEPT !.op = "unload", !.err = r.err,
                                  !.pre = [model |-> model, lifecycle |-> lifecycle]]
        /\ UNCHANGED params

\* predict(image, params), yolo11n_seg.py:47-148
Predict ==
    \E c \in PredictInputs :
        LET used == [conf_threshold |-> ConfThreshold(c.p, params),
                     iou_threshold |-> IouThreshold(c.p, params),
                     show_boxes |-> ShowBoxes(c.p, params),
                     epsilon_factor |-> EpsilonFactor(c.p, params)]
            r == IF model = Absent THEN Raised("AttributeError")
                 ELSE ResultLoop(c.results, 1, c.image[1], c.image[2],
                                 used.show_boxes, used.epsilon_factor, << >>)
        IN  /\ last' = [op |-> "predict", err |-> r.err, ran |-> model # Absent,
                        shapes |-> r.shapes, call |-> c, used |-> used,
                        pre |-> [model |-> model, lifecycle |-> lifecycle]]
            /\ UNCHANGED <<model, params, lifecycle>>

Next == Load \/ Unload \/ Predict

Spec == Init /\ [][Next]_vars

----------------------------------------------------------------------------
(* Lifecycle claims *)

\* C1: predict succeeds only while the plugin is Loaded: issued in any other
\* state it is rejected with NotLoadedError, issued after a successful load()
\* it returns a PredictionResult.
C1_PredictOnlyWhileLoaded ==
    last.op = "predict" =>
        IF lifecycle = "Loaded"
        THEN last.err = NoError
        ELSE last.err = "NotLoadedError" /\ ~last.ran

C3_UnloadSafeIdempotent ==
    last.op = "unload" =>
        /\ last.err = NoError
        /\ model = Absent
        /\ lifecycle = "Unloaded"
        /\ UnloadResult(model) = [model |-> model, err |-> NoError]

\* unload() called on a plugin whose load() failed with the model attached
C3_Witness ==
    /\ last.op = "unload"
    /\ last.pre.lifecycle = "Failed"
    /\ last.pre.model # Absent
    /\ model = Absent

----------------------------------------------------------------------------
(* Claims about one predict call *)

\* the latest call is a predict that ran the wrapped model
Ran == last.op = "predict" /\ last.ran

\* the latest call got one result from the wrapped model
OneResult == Ran /\ Len(last.call.results) = 1

TheResult == last.call.results[1]

\* the latest call got one result carrying masks
MaskCall == OneResult /\ TheResult.masks

\* the mask of inst at the resolution of the image of the latest call
ResampledOf(inst) == Resampled(inst.mask, last.call.image[1], last.call.image[2])

\* the points extracted from the mask of inst in the latest call
PointsOf(inst) ==
    mask_to_polygon(ResampledOf(inst).px, inst.contours, last.used.epsilon_factor)

KindsOf(shapes) == [j \in DOMAIN shapes |-> shapes[j].shape_type]

IsPolygon(shape) == shape.shape_type = "polygon"

\* C4: one instance whose mask yields at least 3 points gives [rectangle,
\* polygon] when predict's show_boxes is true and [polygon] when it is false;
\* one instance with a box and no mask gives one rectangle either way.
C4_ShapesOfOneInstance ==
    (OneResult /\ last.err = NoError /\ Len(TheResult.inst) = 1) =>
        LET inst == TheResult.inst[1]
        IN  /\ (TheResult.masks /\ Len(PointsOf(inst)) >= 3) =>
                   /\ KindsOf(last.shapes) =
                        IF last.used.show_boxes THEN <<"rectangle", "polygon">>
                        ELSE <<"polygon">>
                   /\ \A j \in DOMAIN last.shapes :
                        /\ last.shapes[j].label = TheResult.names[inst.cls]
                        /\ last.shapes[j].score = inst.conf
            /\ (~TheResult.masks /\ TheResult.boxes) =>
                   /\ KindsOf(last.shapes) = <<"rectangle">>
                   /\ last.shapes[1].points = RectPoints(inst.xyxy)

\* a mask instance with show_boxes on: the rectangle, then the polygon
C4_Witness ==
    /\ MaskCall /\ last.err = NoError /\ Len(TheResult.inst) = 1
    /\ last.used.show_boxes
    /\ KindsOf(last.shapes) = <<"rectangle", "polygon">>

\* C5: each of conf_threshold, iou_threshold, show_boxes, epsilon_factor is
\* taken from the call's params when present there, else from the plugin's
\* configured params when present there, else from the default.
C5_ThreeTierLookup ==
    LET Resolve(key, default) ==
            IF key \in DOMAIN last.call.p THEN last.call.p[key]
            ELSE IF key \in DOMAIN params THEN params[key]
            ELSE default
    IN  Ran =>
            /\ last.used.conf_threshold = Resolve("conf_threshold", 250)
            /\ last.used.iou_threshold = Resolve("iou_threshold", 700)
            /\ last.used.show_boxes = Resolve("show_boxes", FALSE)
            /\ last.used.epsilon_factor = Resolve("epsilon_factor", 1)

\* C6: a mask without a positive pixel gives the empty polygon, and the
\* polygons a call returns are, in order, those of the instances whose
\* extraction has at least 3 points: an instance with fewer points adds none
\* and takes none away.
C6_DegenerateMaskNoShape ==
    MaskCall =>
        /\ \A i \in DOMAIN TheResult.inst :
              LET m == ResampledOf(TheResult.inst[i])
              IN  (m.err = NoError
                   /\ \A r \in DOMAIN m.px : \A c \in DOMAIN m.px[r] : m.px[r][c] = 0)
                  => PointsOf(TheResult.inst[i]) = << >>
        /\ last.err = NoError =>
              LET kept == SelectSeq(TheResult.inst, LAMBDA inst : Len(PointsOf(inst)) >= 3)
                  polygons == SelectSeq(last.shapes, IsPolygon)
              IN  /\ Len(polygons) = Len(kept)
                  /\ \A j \in DOMAIN kept :
                        /\ polygons[j].score = kept[j].conf
                        /\ polygons[j].label = TheResult.names[kept[j].cls]

\* two instances, the first with an all-zero mask: only the second is returned
C6_Witness ==
    /\ MaskCall /\ last.err = NoError /\ Len(TheResult.inst) = 2
    /\ TheResult.inst[1].mask = ZeroMask
    /\ PointsOf(TheResult.inst[1]) = << >>
    /\ Len(PointsOf(TheResult.inst[2])) >= 3
    /\ KindsOf(last.shapes) = <<"polygon">>
    /\ last.shapes[1].score = TheResult.inst[2].conf

\* C7: a returned rectangle has 4 points; a returned polygon is a ring of at
\* least 3 points whose first and last point are equal; the ring is the
\* extracted sequence itself when that already ends with its first point and
\* the extracted sequence followed by one copy of its first point otherwise.
C7_PointsMatchKind ==
    (Ran /\ last.err = NoError) =>
        /\ \A j \in DOMAIN last.shapes :
              LET pts == last.shapes[j].points
              IN  IF IsPolygon(last.shapes[j])
                  THEN Len(pts) >= 3 /\ pts[1] = pts[Len(pts)]
                  ELSE last.shapes[j].shape_type = "rectangle" /\ Len(pts) = 4
        /\ (MaskCall /\ Len(TheResult.inst) = 1 /\ last.shapes # << >>) =>
              LET extracted == PointsOf(TheResult.inst[1])
                  ring == last.shapes[Len(last.shapes)].points
              IN  /\ Len(extracted) >= 3
                  /\ ring = IF extracted[1] = extracted[Len(extracted)]
                            THEN extracted
                            ELSE extracted \o << extracted[1] >>

\* an extracted sequence that is closed already is returned as it is
C7_Witness ==
    /\ MaskCall /\ last.err = NoError /\ Len(TheResult.inst) = 1
    /\ PointsOf(TheResult.inst[1]) = ClosedTri
    /\ last.shapes # << >>
    /\ last.shapes[Len(last.shapes)].points = ClosedTri

----------------------------------------------------------------------------
(* Claims about failures and about the binarisation *)

\* inst cannot be processed: its mask cannot be resampled or its class has no name
Malformed(inst) == ResampledOf(inst).err # NoError \/ inst.cls \notin DOMAIN Names

\* C8: when one of several instances is malformed, predict does not fail and
\* returns the shapes of all the other instances in model order.
C8_MalformedInstanceSkipped ==
    (MaskCall /\ Len(TheResult.inst) >= 2
     /\ \E i \in DOMAIN TheResult.inst : Malformed(TheResult.inst[i])) =>
        LET others == SelectSeq(TheResult.inst, LAMBDA inst : ~Malformed(inst))
            expected == InstanceLoop([TheResult EXCEPT !.inst = others], 1,
                                     last.call.image[1], last.call.image[2],
                                     last.used.show_boxes, last.used.epsilon_factor, << >>)
        IN  last.err = NoError /\ last.shapes = expected.shapes

\* the latest call is a predict in which resampling a mask raised
ExtractionFailed ==
    /\ MaskCall
    /\ \E i \in DOMAIN TheResult.inst :
          /\ ResampledOf(TheResult.inst[i]).err # NoError
          /\ \A j \in 1..(i - 1) : ~Malformed(TheResult.inst[j])

\* every instance the wrapped model returned to call c can be processed
WellFormed(c) ==
    \A k \in DOMAIN c.results : \A i \in DOMAIN c.results[k].inst :
        LET inst == c.results[k].inst[i]
        IN  /\ inst.cls \in DOMAIN Names
            /\ c.results[k].masks =>
                  Resampled(inst.mask, c.image[1], c.image[2]).err = NoError

PixelsSeen ==
    IF MaskCall
    THEN UNION { LET m == ResampledOf(TheResult.inst[i])
                 IN  IF m.err = NoError
                     THEN {m.px[r][c] : r \in DOMAIN m.px, c \in DOMAIN m.px[1]}
                     ELSE {} : i \in DOMAIN TheResult.inst }
    ELSE {}

\* C10 as stated: a pixel of value v is foreground in the 8-bit image exactly
\* when v > 0.
C10_ForegroundIffPositive ==
    \A v \in PixelsSeen : (ToUint8(v) # 0) <=> (v > 0)

\* C10 amended: a pixel of value v in [0,1] is foreground in the 8-bit image
\* exactly when v * 255 >= 1, the cast to 8 bits truncating: a positive value
\* below 1/255 is background like 0, and a mask all of whose values are below
\* 1/255 gives no shape.
C10_ForegroundIffAtLeastOne255th ==
    /\ \A v \in PixelsSeen : (ToUint8(v) # 0) <=> (v * 255 >= Unit)
    /\ (MaskCall /\ last.err = NoError /\ Len(TheResult.inst) = 1
        /\ TheResult.inst[1].contours = QuadContours) =>
            ((last.shapes # << >>) <=> (\E v \in PixelsSeen : v * 255 >= Unit))

\* resampling 1/255 next to 0 gave a positive value below 1/255, which is
\* taken as background
C10_Witness ==
    /\ MaskCall /\ last.err = NoError /\ Len(TheResult.inst) = 1
    /\ TheResult.inst[1].mask = Mask(1, 2, << <<2 * Sub, 0>> >>)
    /\ PixelsSeen = {Sub}
    /\ last.shapes = << >>

====
